---- MODULE Spec2Model ----
(***************************************************************************)
(* Model of src/bin/main.rs: the triangle / clear-rectangle Metal demo.    *)
(*                                                                         *)
(* main() runs a straight-line setup (window, device, layer, shader       *)
(* library, two render pipeline states, command queue, vertex buffer,     *)
(* clear-rect buffer) and then hands a closure to event_loop.run.  The     *)
(* closure is called once per event; each call is one action here.  The   *)
(* event loop delivers events in winit's per-iteration order: NewEvents,   *)
(* window events, MainEventsCleared, RedrawRequested, RedrawEventsCleared, *)
(* and LoopDestroyed once the control flow is Exit (Exit is sticky).       *)
(*                                                                         *)
(* Numbers that are f32 in the program are integers here: vertex           *)
(* coordinates in millionths, the phase r in steps of 0.01.                *)
(***************************************************************************)
EXTENDS Integers, Naturals, Sequences, FiniteSets, TLC

\* ---------------------------------------------------------------- bounds
MaxIter == 3
MaxPending == 1

\* ------------------------------------------------------ program constants
LogicalSize == 512
SizeOfF32 == 4
RStep == 1

OwnWindow == "own"
OtherWindow == "other"

ScaleFactors == {1, 2}
Sizes == {<<64, 512>>, <<512, 512>>, <<1024, 1024>>}

Resources ==
    {"device", "layer", "library", "triangle_pipeline_state",
     "clear_rect_pipeline_state", "command_queue", "vbuf", "clear_rect_buffer"}

ShaderFunctions ==
    {"triangle_vertex", "triangle_fragment", "clear_rect_vertex", "clear_rect_fragment"}

Garbage == -1

VARIABLES
    pc,             \* position of main: a setup step, "loop", or a final state
    failure,        \* the setup step that failed, "none" if none did
    created,        \* per resource: how many times it has been created
    library,        \* functions of the compiled shader library
    windowSize,     \* window.inner_size(), physical pixels
    drawableSize,   \* size last given to layer.set_drawable_size
    pending,        \* Resized events the window system has queued
    phase,          \* position of the event loop inside one iteration
    iter,           \* iterations started
    redraw_requested, \* window.request_redraw() called, not yet served
    closureFlow,    \* *control_flow as the closure left it in the last callback
    control_flow,   \* control flow as the loop sees it after the callback
    will_exit,      \* the loop has seen Exit (sticky)
    lastEvent,      \* the event of the last callback
    attempted,      \* a RedrawRequested callback ran in this iteration
    r,              \* animation phase, in steps of 0.01
    vbuf,           \* contents of the vertex buffer (its 15 elements)
    vbufWrites,     \* CPU copies into the vertex buffer
    lastCopy,       \* element count, bytes and out-of-bounds extent of the last copy
    modRange,       \* byte range last given to did_modify_range
    cmdBuffers,     \* command buffers created
    presents,       \* present_drawable calls
    commits,        \* commit calls
    drawables,      \* drawables obtained from next_drawable
    lastFrame,      \* what the last RedrawRequested callback did
    inFlight        \* committed command buffers the GPU has not finished

vars ==
    <<pc, failure, created, library, windowSize, drawableSize, pending, phase,
      iter, redraw_requested, closureFlow, control_flow, will_exit, lastEvent,
      attempted, r, vbuf, vbufWrites, lastCopy, modRange, cmdBuffers, presents,
      commits, drawables, lastFrame, inFlight>>

setupVars == <<windowSize, pending, phase, iter, redraw_requested, closureFlow,
               control_flow, will_exit, lastEvent, attempted, vbufWrites, lastCopy,
               modRange, cmdBuffers, presents, commits, drawables, lastFrame, inFlight>>

gpuVars == <<vbuf, vbufWrites, lastCopy, modRange, cmdBuffers, presents, commits,
             drawables, lastFrame, inFlight, r>>

Max(a, b) == IF a > b THEN a ELSE b

\* ------------------------------------------------------------ vertex data
\* Lines 117-119: the array the vertex buffer is created from.
InitialVertexData ==
    <<0, 500000, 1000000, 0, 0,
      -500000, -500000, 0, 1000000, 0,
      500000, 500000, 0, 0, 1000000>>

\* f32::cos of a phase of x steps of 0.01, in millionths (Taylor, 3 terms).
CosMicro(x) == 1000000 - 50 * x * x + (x * x * x * x) \div 2400

\* Lines 177-193: the array of one frame.
FrameVertexData(x) ==
    <<0, 500000, 1000000, 0, 0,
      -500000 + (CosMicro(x) \div 2 + 500000), -500000, 0, 1000000, 0,
      500000 - (CosMicro(x) \div 2 + 500000), -500000, 0, 0, 1000000>>

\* Line 123: byte length of the buffer made from the initial array.
VbufBytes == Len(InitialVertexData) * SizeOfF32

\* Line 199: the count handed to ptr::copy.  ptr::copy counts elements of
\* type f32, and the code hands it the byte length.
CopyCount(src) == Len(src) * SizeOfF32

\* Line 205: the length handed to did_modify_range, in bytes.
ModifiedLength(src) == Len(src) * SizeOfF32

\* Lines 195-201: ptr::copy(src, dst, count) seen from the destination buffer.
\* Elements past the end of src are whatever follows the array in memory.
PtrCopy(src, dst, count) ==
    [i \in 1..Len(dst) |->
        IF i <= count THEN (IF i <= Len(src) THEN src[i] ELSE Garbage) ELSE dst[i]]

CopyRecord(src, dst, count) ==
    [count |-> count,
     bytes |-> count * SizeOfF32,
     srcLen |-> Len(src),
     dstLen |-> Len(dst),
     oobRead |-> Max(0, count - Len(src)),
     oobWrite |-> Max(0, count - Len(dst))]

NoCopy == [count |-> 0, bytes |-> 0, srcLen |-> 0, dstLen |-> 0, oobRead |-> 0, oobWrite |-> 0]

\* --------------------------------------------------- per-frame encoding
Call(op, obj, a) == [op |-> op, obj |-> obj, a |-> a]

\* The frame with commit() called before present_drawable().
FrameCallsCommitBeforePresent(physical_size) ==
    << Call("new_command_buffer", "command_queue", <<>>),
       Call("new_render_command_encoder", "render_pass_descriptor", <<>>),
       Call("set_scissor_rect", "", <<20, 20, 100, 100>>),
       Call("set_render_pipeline_state", "clear_rect_pipeline_state", <<>>),
       Call("set_vertex_buffer", "clear_rect_buffer", <<0, 0>>),
       Call("draw_primitives_instanced", "TriangleStrip", <<0, 4, 1>>),
       Call("set_scissor_rect", "", <<0, 0, physical_size[1], physical_size[2]>>),
       Call("set_render_pipeline_state", "triangle_pipeline_state", <<>>),
       Call("set_vertex_buffer", "vbuf", <<0, 0>>),
       Call("draw_primitives", "Triangle", <<0, 3>>),
       Call("end_encoding", "", <<>>),
       Call("commit", "", <<>>),
       Call("present_drawable", "drawable", <<>>) >>

\* The frame with the full-window scissor set only after the triangle draw.
FrameCallsLateScissor(physical_size) ==
    << Call("new_command_buffer", "command_queue", <<>>),
       Call("new_render_command_encoder", "render_pass_descriptor", <<>>),
       Call("set_scissor_rect", "", <<20, 20, 100, 100>>),
       Call("set_render_pipeline_state", "clear_rect_pipeline_state", <<>>),
       Call("set_vertex_buffer", "clear_rect_buffer", <<0, 0>>),
       Call("draw_primitives_instanced", "TriangleStrip", <<0, 4, 1>>),
       Call("set_render_pipeline_state", "triangle_pipeline_state", <<>>),
       Call("set_vertex_buffer", "vbuf", <<0, 0>>),
       Call("draw_primitives", "Triangle", <<0, 3>>),
       Call("set_scissor_rect", "", <<0, 0, physical_size[1], physical_size[2]>>),
       Call("end_encoding", "", <<>>),
       Call("present_drawable", "drawable", <<>>),
       Call("commit", "", <<>>) >>

\* Lines 217-243: the calls of one frame, in program order.
FrameCalls(physical_size) ==
    << Call("new_command_buffer", "command_queue", <<>>),
       Call("new_render_command_encoder", "render_pass_descriptor", <<>>),
       Call("set_scissor_rect", "", <<20, 20, 100, 100>>),
       Call("set_render_pipeline_state", "clear_rect_pipeline_state", <<>>),
       Call("set_vertex_buffer", "clear_rect_buffer", <<0, 0>>),
       Call("draw_primitives_instanced", "TriangleStrip", <<0, 4, 1>>),
       Call("set_scissor_rect", "", <<0, 0, physical_size[1], physical_size[2]>>),
       Call("set_render_pipeline_state", "triangle_pipeline_state", <<>>),
       Call("set_vertex_buffer", "vbuf", <<0, 0>>),
       Call("draw_primitives", "Triangle", <<0, 3>>),
       Call("end_encoding", "", <<>>),
       Call("present_drawable", "drawable", <<>>),
       Call("commit", "", <<>>) >>

\* State of a command buffer and its render encoder before any call.  A new
\* encoder's scissor rectangle is the whole render target.
NewGpuState(target) ==
    [buffers |-> 0, encoders |-> 0,
     scissor |-> <<0, 0, target[1], target[2]>>,
     pipeline |-> "none", slot0 |-> "none",
     scissors |-> <<>>, draws |-> <<>>,
     ended |-> 0, presented |-> 0, committed |-> 0]

\* What one call does to the command buffer and encoder.
ApplyCall(s, c) ==
    CASE c.op = "new_command_buffer" -> [s EXCEPT !.buffers = @ + 1]
      [] c.op = "new_render_command_encoder" -> [s EXCEPT !.encoders = @ + 1]
      [] c.op = "set_scissor_rect" ->
            [s EXCEPT !.scissor = c.a, !.scissors = Append(@, c.a)]
      [] c.op = "set_render_pipeline_state" -> [s EXCEPT !.pipeline = c.obj]
      [] c.op = "set_vertex_buffer" ->
            IF c.a[1] = 0 THEN [s EXCEPT !.slot0 = c.obj] ELSE s
      [] c.op \in {"draw_primitives", "draw_primitives_instanced"} ->
            [s EXCEPT !.draws =
                Append(@, [prim |-> c.obj, a |-> c.a, scissor |-> s.scissor,
                           pipeline |-> s.pipeline, slot0 |-> s.slot0])]
      [] c.op = "end_encoding" -> [s EXCEPT !.ended = @ + 1]
      [] c.op = "present_drawable" -> [s EXCEPT !.presented = @ + 1]
      [] c.op = "commit" -> [s EXCEPT !.committed = @ + 1]
      [] OTHER -> s

RECURSIVE RunCalls(_, _)
RunCalls(s, calls) ==
    IF calls = <<>> THEN s ELSE RunCalls(ApplyCall(s, Head(calls)), Tail(calls))

NoFrame == [kind |-> "none", calls |-> <<>>, gpu |-> NewGpuState(<<0, 0>>),
            target |-> <<0, 0>>, window |-> <<0, 0>>]

\* ------------------------------------------------------------------ events
WindowIds == {OwnWindow, OtherWindow}

Ev(kind, wid, state, key, size) ==
    [kind |-> kind, wid |-> wid, state |-> state, key |-> key, size |-> size]

NoSize == <<0, 0>>

CloseEvents == {Ev("CloseRequested", w, "", "", NoSize) : w \in WindowIds}
KeyEvents ==
    {Ev("KeyboardInput", w, s, k, NoSize) :
        w \in WindowIds, s \in {"Pressed", "Released"}, k \in {"Escape", "A", "None"}}
FocusEvents == {Ev("Focused", w, "", "", NoSize) : w \in WindowIds}
ForeignResized == {Ev("Resized", OtherWindow, "", "", s) : s \in Sizes}

\* Window events the loop can deliver besides the queued Resized of the window.
InputEvents == CloseEvents \cup KeyEvents \cup FocusEvents \cup ForeignResized

LoopEvent(kind) == Ev(kind, "", "", "", NoSize)

\* The exit pattern without the test of ElementState::Pressed.
IsExitRequestAnyState(e) ==
    \/ e.kind = "CloseRequested"
    \/ e.kind = "KeyboardInput" /\ e.key = "Escape"

\* Lines 156-165: the pattern of the arm that sets ControlFlow::Exit.
IsExitRequest(e) ==
    \/ e.kind = "CloseRequested"
    \/ e.kind = "KeyboardInput" /\ e.state = "Pressed" /\ e.key = "Escape"

NoFailure == [step |-> "none", what |-> ""]

\* ------------------------------------------------------------------- Init
Init ==
    /\ pc = "build_window"
    /\ failure = NoFailure
    /\ created = [x \in Resources |-> 0]
    /\ library = {}
    /\ \E f \in ScaleFactors : windowSize = <<LogicalSize * f, LogicalSize * f>>
    /\ drawableSize = <<0, 0>>
    /\ pending = <<>>
    /\ phase = "none"
    /\ iter = 0
    /\ redraw_requested = FALSE
    /\ closureFlow = "Poll"
    /\ control_flow = "Poll"
    /\ will_exit = FALSE
    /\ lastEvent = LoopEvent("none")
    /\ attempted = FALSE
    /\ r = 0
    /\ vbuf = <<>>
    /\ vbufWrites = 0
    /\ lastCopy = NoCopy
    /\ modRange = <<0, 0>>
    /\ cmdBuffers = 0
    /\ presents = 0
    /\ commits = 0
    /\ drawables = 0
    /\ lastFrame = NoFrame
    /\ inFlight = {}

\* ------------------------------------------------------------------ setup
Create(x) == created' = [created EXCEPT ![x] = @ + 1]

\* A step of main that fails through `?`: main returns Err.
ReturnErr(step) ==
    /\ pc' = "returned_err"
    /\ failure' = [step |-> step, what |-> ""]

\* A step that fails through unwrap(): the thread panics.
Panic(step, what) ==
    /\ pc' = "panicked"
    /\ failure' = [step |-> step, what |-> what]

\* Lines 77-81.
BuildWindow ==
    /\ pc = "build_window"
    /\ \E ok \in BOOLEAN :
        IF ok THEN pc' = "system_default" /\ failure' = failure
              ELSE ReturnErr("build_window")
    /\ UNCHANGED <<created, library, drawableSize, r, vbuf>>
    /\ UNCHANGED setupVars

\* Line 83.
SystemDefault ==
    /\ pc = "system_default"
    /\ \E ok \in BOOLEAN :
        IF ok THEN pc' = "layer" /\ failure' = failure /\ Create("device")
              ELSE ReturnErr("system_default") /\ created' = created
    /\ UNCHANGED <<library, drawableSize, r, vbuf>>
    /\ UNCHANGED setupVars

\* Lines 85-100.
NewLayer ==
    /\ pc = "layer"
    /\ pc' = "read_source"
    /\ Create("layer")
    /\ drawableSize' = windowSize
    /\ UNCHANGED <<failure, library, r, vbuf>>
    /\ UNCHANGED setupVars

\* Line 101.
ReadSource ==
    /\ pc = "read_source"
    /\ \E ok \in BOOLEAN :
        IF ok THEN pc' = "new_library" /\ failure' = failure
              ELSE ReturnErr("read_source")
    /\ UNCHANGED <<created, library, drawableSize, r, vbuf>>
    /\ UNCHANGED setupVars

\* Lines 102-103.  A source that compiles defines some set of functions.
NewLibrary ==
    /\ pc = "new_library"
    /\ \/ /\ \E fs \in SUBSET ShaderFunctions : library' = fs
          /\ pc' = "triangle_pipeline"
          /\ failure' = failure
          /\ Create("library")
       \/ /\ ReturnErr("new_library")
          /\ UNCHANGED <<created, library>>
    /\ UNCHANGED <<drawableSize, r, vbuf>>
    /\ UNCHANGED setupVars

\* Lines 36-65: prepare_pipeline_state, with the result bound in main.
prepare_pipeline_state(here, vertex_shader, fragment_shader, result, next) ==
    /\ pc = here
    /\ IF vertex_shader \notin library
         THEN Panic("get_function", vertex_shader) /\ created' = created
       ELSE IF fragment_shader \notin library
         THEN Panic("get_function", fragment_shader) /\ created' = created
       ELSE \E ok \in BOOLEAN :
              IF ok THEN pc' = next /\ failure' = failure /\ Create(result)
                    ELSE Panic("new_render_pipeline_state", result)
                         /\ created' = created
    /\ UNCHANGED <<library, drawableSize, r, vbuf>>
    /\ UNCHANGED setupVars

\* Lines 105-106.
TrianglePipeline ==
    prepare_pipeline_state("triangle_pipeline", "triangle_vertex", "triangle_fragment",
                           "triangle_pipeline_state", "clear_rect_pipeline")

\* Lines 107-112.
ClearRectPipeline ==
    prepare_pipeline_state("clear_rect_pipeline", "clear_rect_vertex",
                           "clear_rect_fragment", "clear_rect_pipeline_state",
                           "command_queue")

\* Line 114.
NewCommandQueue ==
    /\ pc = "command_queue"
    /\ pc' = "vbuf"
    /\ Create("command_queue")
    /\ UNCHANGED <<failure, library, drawableSize, r, vbuf>>
    /\ UNCHANGED setupVars

\* Lines 116-128.
NewVbuf ==
    /\ pc = "vbuf"
    /\ pc' = "clear_rect_buffer"
    /\ Create("vbuf")
    /\ vbuf' = InitialVertexData
    /\ r' = 0
    /\ UNCHANGED <<failure, library, drawableSize>>
    /\ UNCHANGED setupVars

\* Lines 130-149.
NewClearRectBuffer ==
    /\ pc = "clear_rect_buffer"
    /\ pc' = "run"
    /\ Create("clear_rect_buffer")
    /\ UNCHANGED <<failure, library, drawableSize, r, vbuf>>
    /\ UNCHANGED setupVars

\* Line 151: event_loop.run takes the closure and starts iterating.
Run ==
    /\ pc = "run"
    /\ pc' = "loop"
    /\ phase' = "start"
    /\ UNCHANGED <<failure, created, library, windowSize, drawableSize, pending, iter,
                   redraw_requested, closureFlow, control_flow, will_exit, lastEvent,
                   attempted, r, vbuf, vbufWrites, lastCopy, modRange, cmdBuffers,
                   presents, commits, drawables, lastFrame, inFlight>>

\* ------------------------------------------------------------ the closure
\* Lines 151-152 and the return of a callback: the closure first stores Poll,
\* an arm may store Exit; the loop then keeps Exit once it has seen it.
EndCallback(e, flow) ==
    /\ lastEvent' = e
    /\ closureFlow' = flow
    /\ will_exit' = (will_exit \/ flow = "Exit")
    /\ control_flow' = IF will_exit \/ flow = "Exit" THEN "Exit" ELSE flow

\* The window-event arm with a Resized arm that makes a new layer.
WindowEventArmNewLayer(e) ==
    /\ e.wid = OwnWindow
    /\ IF IsExitRequest(e)
         THEN EndCallback(e, "Exit") /\ drawableSize' = drawableSize /\ created' = created
       ELSE IF e.kind = "Resized"
         THEN EndCallback(e, "Poll") /\ drawableSize' = e.size /\ Create("layer")
       ELSE EndCallback(e, "Poll") /\ drawableSize' = drawableSize /\ created' = created
    /\ UNCHANGED redraw_requested
    /\ UNCHANGED gpuVars

\* Lines 154-171: a window event of the program's window.
WindowEventArm(e) ==
    /\ e.wid = OwnWindow
    /\ IF IsExitRequest(e)
         THEN EndCallback(e, "Exit") /\ drawableSize' = drawableSize
       ELSE IF e.kind = "Resized"
         THEN EndCallback(e, "Poll") /\ drawableSize' = e.size
       ELSE EndCallback(e, "Poll") /\ drawableSize' = drawableSize
    /\ UNCHANGED <<created, redraw_requested>>
    /\ UNCHANGED gpuVars

\* The MainEventsCleared arm without window.request_redraw().
MainEventsClearedArmNoRequest(e) ==
    /\ redraw_requested' = redraw_requested
    /\ EndCallback(e, "Poll")
    /\ UNCHANGED <<created, drawableSize>>
    /\ UNCHANGED gpuVars

\* Lines 172-174.
MainEventsClearedArm(e) ==
    /\ redraw_requested' = TRUE
    /\ EndCallback(e, "Poll")
    /\ UNCHANGED <<created, drawableSize>>
    /\ UNCHANGED gpuVars

\* Line 247: every other event, and window events of another window (the
\* guard of line 154 fails).
DefaultArm(e) ==
    /\ EndCallback(e, "Poll")
    /\ UNCHANGED <<created, drawableSize>>
    /\ UNCHANGED gpuVars

\* Outcomes of the copy of lines 195-201.  A copy that runs past the end of
\* the source array or of the buffer is undefined behaviour: the process may
\* go on with memory past the buffer overwritten, or die on the access.
CopyOutcomes(rec) ==
    IF rec.oobRead > 0 \/ rec.oobWrite > 0 THEN {"continue", "fault"} ELSE {"continue"}

\* The early return placed after the increment of r.
NoDrawableAdvancesR ==
    /\ lastFrame' = [NoFrame EXCEPT !.kind = "no_drawable"]
    /\ r' = r + RStep
    /\ UNCHANGED <<drawables, cmdBuffers, presents, commits, inFlight>>

\* Lines 208-211: next_drawable gave None, the callback returns.
NoDrawable ==
    /\ lastFrame' = [NoFrame EXCEPT !.kind = "no_drawable"]
    /\ UNCHANGED <<drawables, cmdBuffers, presents, commits, inFlight, r>>

\* The frame followed by command_buffer.wait_until_completed(): the callback
\* returns only when the GPU has finished every command buffer of the queue.
EncodeCommitAndWait(data) ==
    LET calls == FrameCalls(windowSize)
        g == RunCalls(NewGpuState(drawableSize), calls)
    IN  /\ drawables' = drawables + 1
        /\ cmdBuffers' = cmdBuffers + g.buffers
        /\ presents' = presents + g.presented
        /\ commits' = commits + g.committed
        /\ inFlight' = {}
        /\ lastFrame' = [kind |-> "committed", calls |-> calls, gpu |-> g,
                         target |-> drawableSize, window |-> windowSize]
        /\ r' = r + RStep

\* Lines 213-245: encode the frame on the drawable, present, commit, advance r.
\* data is what the vertex buffer holds when the command buffer is committed.
EncodeAndCommit(data) ==
    LET calls == FrameCalls(windowSize)
        g == RunCalls(NewGpuState(drawableSize), calls)
    IN  /\ drawables' = drawables + 1
        /\ cmdBuffers' = cmdBuffers + g.buffers
        /\ presents' = presents + g.presented
        /\ commits' = commits + g.committed
        /\ inFlight' =
             IF g.committed > 0
               THEN inFlight \cup {[frame |-> commits + g.committed, data |-> data]}
               ELSE inFlight
        /\ lastFrame' = [kind |-> "committed", calls |-> calls, gpu |-> g,
                         target |-> drawableSize, window |-> windowSize]
        /\ r' = r + RStep

\* Lines 175-246.
RedrawRequestedArm(e) ==
    LET vertex_data == FrameVertexData(r)
        count == CopyCount(vertex_data)
        rec == CopyRecord(vertex_data, vbuf, count)
    IN  /\ vbuf' = PtrCopy(vertex_data, vbuf, count)
        /\ vbufWrites' = vbufWrites + 1
        /\ lastCopy' = rec
        /\ \E outcome \in CopyOutcomes(rec) :
            IF outcome = "fault"
              THEN /\ pc' = "crashed"
                   /\ lastEvent' = e
                   /\ closureFlow' = "Poll"
                   /\ lastFrame' = [NoFrame EXCEPT !.kind = "fault"]
                   /\ UNCHANGED <<modRange, cmdBuffers, presents, commits, drawables,
                                  inFlight, r, will_exit, control_flow>>
              ELSE /\ pc' = pc
                   /\ modRange' = <<0, ModifiedLength(vertex_data)>>
                   /\ EndCallback(e, "Poll")
                   /\ \E got \in BOOLEAN :
                        IF got THEN EncodeAndCommit(PtrCopy(vertex_data, vbuf, count))
                               ELSE NoDrawable
        /\ UNCHANGED <<created, drawableSize>>

\* --------------------------------------------------------- the event loop
loopFixed == <<failure, library, windowSize>>

\* A new iteration starts while the control flow is Poll.
DeliverNewEvents ==
    /\ pc = "loop" /\ phase = "start" /\ ~will_exit /\ iter < MaxIter
    /\ DefaultArm(LoopEvent("NewEvents"))
    /\ phase' = "events"
    /\ iter' = iter + 1
    /\ attempted' = FALSE
    /\ UNCHANGED <<pc, pending, redraw_requested>>
    /\ UNCHANGED loopFixed

\* An input event, for this window or another one.
DeliverWindowEvent ==
    /\ pc = "loop" /\ phase = "events"
    /\ \E e \in InputEvents :
        IF e.wid = OwnWindow THEN WindowEventArm(e)
                             ELSE DefaultArm(e) /\ redraw_requested' = redraw_requested
    /\ UNCHANGED <<pc, phase, iter, attempted, pending>>
    /\ UNCHANGED loopFixed

\* The oldest queued Resized event of the program's window.
DeliverResized ==
    /\ pc = "loop" /\ phase = "events" /\ pending # <<>>
    /\ WindowEventArm(Ev("Resized", OwnWindow, "", "", Head(pending)))
    /\ pending' = Tail(pending)
    /\ UNCHANGED <<pc, phase, iter, attempted>>
    /\ UNCHANGED loopFixed

DeliverMainEventsCleared ==
    /\ pc = "loop" /\ phase = "events"
    /\ MainEventsClearedArm(LoopEvent("MainEventsCleared"))
    /\ phase' = "redraw"
    /\ UNCHANGED <<pc, iter, attempted, pending>>
    /\ UNCHANGED loopFixed

\* Served once per request made with window.request_redraw().
DeliverRedrawRequested ==
    /\ pc = "loop" /\ phase = "redraw" /\ redraw_requested
    /\ RedrawRequestedArm(LoopEvent("RedrawRequested"))
    /\ redraw_requested' = FALSE
    /\ attempted' = TRUE
    /\ UNCHANGED <<phase, iter, pending>>
    /\ UNCHANGED loopFixed

DeliverRedrawEventsCleared ==
    /\ pc = "loop" /\ phase = "redraw" /\ ~redraw_requested
    /\ DefaultArm(LoopEvent("RedrawEventsCleared"))
    /\ phase' = "start"
    /\ UNCHANGED <<pc, iter, attempted, pending, redraw_requested>>
    /\ UNCHANGED loopFixed

\* The loop stops once it has seen Exit; the process ends after this callback.
DeliverLoopDestroyed ==
    /\ pc = "loop" /\ phase = "start" /\ will_exit
    /\ DefaultArm(LoopEvent("LoopDestroyed"))
    /\ pc' = "exited"
    /\ phase' = "none"
    /\ UNCHANGED <<iter, attempted, pending, redraw_requested>>
    /\ UNCHANGED loopFixed

\* ------------------------------------------------------------ environment
\* The window system changes the physical size of the window (a move to a
\* display of another scale factor, a change of display mode) and queues the
\* Resized event.
OSResizeWindow ==
    /\ pc = "loop" /\ Len(pending) < MaxPending
    /\ \E s \in Sizes \ {windowSize} :
        /\ windowSize' = s
        /\ pending' = Append(pending, s)
    /\ UNCHANGED <<pc, failure, created, library, drawableSize, phase, iter,
                   redraw_requested, closureFlow, control_flow, will_exit, lastEvent,
                   attempted>>
    /\ UNCHANGED gpuVars

\* The GPU finishes a committed command buffer.
GPUComplete ==
    /\ pc = "loop"
    /\ \E cb \in inFlight : inFlight' = inFlight \ {cb}
    /\ UNCHANGED <<pc, failure, created, library, windowSize, drawableSize, pending,
                   phase, iter, redraw_requested, closureFlow, control_flow, will_exit,
                   lastEvent, attempted, r, vbuf, vbufWrites, lastCopy, modRange,
                   cmdBuffers, presents, commits, drawables, lastFrame>>

Setup ==
    \/ BuildWindow
    \/ SystemDefault
    \/ NewLayer
    \/ ReadSource
    \/ NewLibrary
    \/ TrianglePipeline
    \/ ClearRectPipeline
    \/ NewCommandQueue
    \/ NewVbuf
    \/ NewClearRectBuffer
    \/ Run

Loop ==
    \/ DeliverNewEvents
    \/ DeliverWindowEvent
    \/ DeliverResized
    \/ DeliverMainEventsCleared
    \/ DeliverRedrawRequested
    \/ DeliverRedrawEventsCleared
    \/ DeliverLoopDestroyed

Next ==
    \/ Setup
    \/ Loop
    \/ OSResizeWindow
    \/ GPUComplete

Spec == Init /\ [][Next]_vars

\* With ControlFlow::Poll the loop never waits: every delivery that is due
\* is eventually made.
FairSpec == Spec /\ WF_vars(DeliverNewEvents) /\ WF_vars(DeliverMainEventsCleared)
                 /\ WF_vars(DeliverRedrawRequested) /\ WF_vars(DeliverRedrawEventsCleared)
                 /\ WF_vars(DeliverLoopDestroyed)

TypeOK ==
    /\ pc \in {"build_window", "system_default", "layer", "read_source", "new_library",
               "triangle_pipeline", "clear_rect_pipeline", "command_queue", "vbuf",
               "clear_rect_buffer", "run", "loop", "returned_err", "panicked",
               "exited", "crashed"}
    /\ r \in Nat
    /\ commits \in Nat

\* ================================================================ claims
AllCreated == \A x \in Resources : created[x] = 1

\* The close / Escape pattern as the claims word it.
CloseOrEscapePressed(e) ==
    \/ e.kind = "CloseRequested"
    \/ e.kind = "KeyboardInput" /\ e.state = "Pressed" /\ e.key = "Escape"

OwnExitRequest(e) == e.wid = OwnWindow /\ CloseOrEscapePressed(e)

\* C1: every resource of the setup is created at most once, all of them
\* exist exactly once whenever the event loop runs or has run, callbacks
\* leave them alone, and no command buffer exists before all of them do.
C1_SetupOnceBeforeFrames ==
    /\ \A x \in Resources : created[x] <= 1
    /\ (pc \in {"loop", "exited", "crashed"} => AllCreated)
    /\ (lastEvent.kind # "none" => AllCreated)
    /\ (cmdBuffers > 0 \/ commits > 0 \/ presents > 0 \/ lastFrame.kind # "none"
            => AllCreated)
    /\ (~AllCreated => cmdBuffers = 0 /\ commits = 0 /\ inFlight = {})

\* A frame was committed after a Resized event of the window was handled.
C1_Witness ==
    /\ commits >= 2
    /\ AllCreated
    /\ drawableSize = <<64, 512>>
    /\ lastFrame.kind = "committed"

\* The recipe of one frame as the claim lists it.
C2_Recipe(win) ==
    << <<"new_command_buffer", <<>> >>,
       <<"new_render_command_encoder", <<>> >>,
       <<"set_scissor_rect", <<20, 20, 100, 100>> >>,
       <<"set_render_pipeline_state", <<>> >>,
       <<"set_vertex_buffer", <<0, 0>> >>,
       <<"draw_primitives_instanced", <<0, 4, 1>> >>,
       <<"set_scissor_rect", <<0, 0, win[1], win[2]>> >>,
       <<"set_render_pipeline_state", <<>> >>,
       <<"set_vertex_buffer", <<0, 0>> >>,
       <<"draw_primitives", <<0, 3>> >>,
       <<"end_encoding", <<>> >>,
       <<"present_drawable", <<>> >>,
       <<"commit", <<>> >> >>

C2_Objects ==
    <<"command_queue", "render_pass_descriptor", "", "clear_rect_pipeline_state",
      "clear_rect_buffer", "TriangleStrip", "", "triangle_pipeline_state", "vbuf",
      "Triangle", "", "drawable", "">>

C2_Position(calls, op) == CHOOSE i \in 1..Len(calls) : calls[i].op = op

\* C2: a RedrawRequested callback that got a drawable made exactly the calls
\* of the recipe, in its order, each once; end_encoding comes before
\* present_drawable and that before commit; one command buffer is created,
\* presented and committed per obtained drawable.
C2_FixedFrameSequence ==
    /\ lastFrame.kind = "committed" =>
        /\ Len(lastFrame.calls) = Len(C2_Recipe(lastFrame.window))
        /\ \A i \in 1..Len(lastFrame.calls) :
            /\ lastFrame.calls[i].op = C2_Recipe(lastFrame.window)[i][1]
            /\ lastFrame.calls[i].a = C2_Recipe(lastFrame.window)[i][2]
            /\ lastFrame.calls[i].obj = C2_Objects[i]
        /\ C2_Position(lastFrame.calls, "end_encoding")
              < C2_Position(lastFrame.calls, "present_drawable")
        /\ C2_Position(lastFrame.calls, "present_drawable")
              < C2_Position(lastFrame.calls, "commit")
        /\ lastFrame.gpu.buffers = 1 /\ lastFrame.gpu.encoders = 1
        /\ lastFrame.gpu.ended = 1 /\ lastFrame.gpu.presented = 1
        /\ lastFrame.gpu.committed = 1
    /\ cmdBuffers = drawables /\ presents = drawables /\ commits = drawables

\* Two frames were committed, the second with another window size.
C2_Witness ==
    /\ lastFrame.kind = "committed"
    /\ commits >= 2
    /\ lastFrame.window = <<1024, 1024>>

\* C3: in a committed frame the clear-rect draw is issued under scissor
\* (20,20,100,100), the clear-rect pipeline and the clear-rect buffer in slot
\* 0; the triangle draw under the full-window scissor, the triangle pipeline
\* and the vertex buffer in slot 0; there is no other draw.
C3_DrawState ==
    lastFrame.kind = "committed" =>
        /\ Len(lastFrame.gpu.draws) = 2
        /\ lastFrame.gpu.draws[1] =
             [prim |-> "TriangleStrip", a |-> <<0, 4, 1>>,
              scissor |-> <<20, 20, 100, 100>>,
              pipeline |-> "clear_rect_pipeline_state", slot0 |-> "clear_rect_buffer"]
        /\ lastFrame.gpu.draws[2] =
             [prim |-> "Triangle", a |-> <<0, 3>>,
              scissor |-> <<0, 0, lastFrame.window[1], lastFrame.window[2]>>,
              pipeline |-> "triangle_pipeline_state", slot0 |-> "vbuf"]

\* A committed frame whose window is not 100 wide, so the two scissors differ.
C3_Witness ==
    /\ lastFrame.kind = "committed"
    /\ Len(lastFrame.gpu.draws) = 2
    /\ lastFrame.gpu.draws[1].scissor # lastFrame.gpu.draws[2].scissor
    /\ lastFrame.window = <<64, 512>>

\* C4: a failed setup step makes main return Err, the loop is never entered
\* and no command buffer is ever created.
C4_SetupErrorsPropagated ==
    failure.step # "none" =>
        /\ pc = "returned_err"
        /\ phase = "none"
        /\ cmdBuffers = 0 /\ commits = 0

\* C5: the RedrawRequested callback overwrites the vertex buffer whatever is
\* in flight, retires no command buffer that was in flight when it started,
\* and the command buffer it commits is still in flight when it returns.
C5_NoWaitForGpu ==
    [][ (vbufWrites' # vbufWrites) =>
          /\ vbufWrites' = vbufWrites + 1
          /\ inFlight \subseteq inFlight'
          /\ (commits' # commits => \E cb \in inFlight' : cb.frame = commits') ]_vars

\* The vertex buffer was overwritten while a command buffer committed with
\* other contents is still in flight.
C5_Witness ==
    /\ lastEvent.kind = "RedrawRequested"
    /\ \E cb \in inFlight : cb.data # vbuf /\ cb.frame < commits

\* C6: a callback that is not a close / Escape request of the own window
\* leaves the control flow at Poll, MainEventsCleared leaves a redraw
\* requested, and an iteration of a loop not told to exit leads to a
\* RedrawRequested callback.
C6_PollsAndRedraws ==
    /\ [](pc = "loop" /\ lastEvent.kind # "none" /\ ~OwnExitRequest(lastEvent)
            => closureFlow = "Poll")
    /\ [](pc = "loop" /\ lastEvent.kind = "MainEventsCleared" => redraw_requested)
    /\ ((pc = "loop" /\ phase = "events" /\ ~will_exit) ~> (attempted \/ will_exit))

\* A second iteration reached its RedrawRequested callback.
C6_Witness ==
    /\ iter >= 2
    /\ attempted
    /\ ~will_exit
    /\ lastEvent.kind = "RedrawRequested"

ScissorInside(s, target) == s[1] + s[3] <= target[1] /\ s[2] + s[4] <= target[2]

\* C7: every scissor rectangle of a frame lies inside the drawable, whose
\* size is the one last given to the layer.
C7_ScissorInsideTarget ==
    lastFrame.kind = "committed" =>
        \A i \in 1..Len(lastFrame.gpu.scissors) :
            ScissorInside(lastFrame.gpu.scissors[i], lastFrame.target)

\* C8: the buffer holds 15 f32 (60 bytes); a frame's copy moves 15 elements,
\* no more than the source array or the buffer holds, and the range given to
\* did_modify_range is the byte range written.
C8_CopyWithinBuffer ==
    /\ (vbuf # <<>> => Len(vbuf) = 15 /\ VbufBytes = 60)
    /\ (vbufWrites > 0 =>
          /\ lastCopy.count = 15
          /\ lastCopy.count <= lastCopy.srcLen
          /\ lastCopy.count <= lastCopy.dstLen
          /\ lastCopy.oobRead = 0 /\ lastCopy.oobWrite = 0
          /\ (pc # "crashed" => modRange = <<0, lastCopy.bytes>>))

\* C9 as stated: the callback of a close / Escape request of the own window
\* ends with Exit, the loop stays at Exit, nothing else makes it exit, and no
\* command buffer is committed once the loop is told to exit.
C9_NoCommitAfterExit ==
    [][ /\ (lastEvent' # lastEvent /\ OwnExitRequest(lastEvent') => closureFlow' = "Exit")
        /\ (will_exit => will_exit' /\ control_flow' = "Exit")
        /\ (~will_exit /\ will_exit' => OwnExitRequest(lastEvent'))
        /\ (will_exit => commits' = commits) ]_vars

\* C9 amended: as above, but instead of "no commit": no further iteration is
\* started, and a RedrawRequested callback of the iteration in progress that
\* gets a drawable commits its command buffer as in any other frame.
C9_ExitIsSticky ==
    [][ /\ (lastEvent' # lastEvent /\ OwnExitRequest(lastEvent') => closureFlow' = "Exit")
        /\ (OwnExitRequest(lastEvent') /\ closureFlow' = "Exit" /\ pc' = "loop" => will_exit')
        /\ (will_exit => will_exit' /\ control_flow' = "Exit")
        /\ (~will_exit /\ will_exit' => OwnExitRequest(lastEvent'))
        /\ (will_exit => iter' = iter)
        /\ (will_exit /\ drawables' # drawables => commits' = commits + 1) ]_vars

\* A frame was committed after the loop was told to exit.
C9_Witness ==
    /\ will_exit
    /\ lastEvent.kind = "RedrawRequested"
    /\ lastFrame.kind = "committed"

\* C10: r counts the committed command buffers, one step each; a callback
\* without drawable overwrites the vertex buffer and changes neither r nor
\* any command-buffer count; only RedrawRequested callbacks change r.
C10_PhaseCountsCommits ==
    [][ /\ r = commits /\ r' = commits'
        /\ r' - r \in {0, 1}
        /\ (vbufWrites' # vbufWrites /\ lastFrame'.kind = "no_drawable" =>
              /\ r' = r
              /\ cmdBuffers' = cmdBuffers /\ presents' = presents
              /\ commits' = commits /\ inFlight' = inFlight
              /\ vbufWrites' = vbufWrites + 1)
        /\ (vbufWrites' = vbufWrites \/ lastEvent'.kind # "RedrawRequested" => r' = r) ]_vars

\* A callback without drawable after a committed frame.
C10_Witness ==
    /\ lastFrame.kind = "no_drawable"
    /\ commits >= 1
    /\ r = commits
    /\ vbufWrites > commits

====
